---- MODULE Spec2Model ----
(***************************************************************************)
(* Comparator-driven ordering algorithms of src/algorithm/sorting.ts:      *)
(* sort, stable_sort, partial_sort, partial_sort_copy, nth_element,        *)
(* is_sorted and is_sorted_until.                                          *)
(*                                                                         *)
(* A container is a sequence of values; a position is its zero-based       *)
(* index (IRandomAccessIterator.index()), so the value at position p of    *)
(* container a is a[p + 1].  A range is a pair of positions [first, last). *)
(***************************************************************************)
EXTENDS Integers, Sequences, FiniteSets

\* ------------------------------------------------------------ bounds
MaxVal == 2
MaxLen == 4
MaxOut == 3

Vals == 0 .. MaxVal
\* value held by every output slot before partial_sort_copy runs
OutFill == MaxVal + 1

\* ------------------------------------------------------------ comparators
\* A comparator is a two-argument predicate over values.
less          == [x \in Vals, y \in Vals |-> x < y]
greater       == [x \in Vals, y \in Vals |-> x > y]
\* orders by a key shared by several distinct values: 0 and 1 tie
key_less      == [x \in Vals, y \in Vals |-> (x \div 2) < (y \div 2)]
always_false  == [x \in Vals, y \in Vals |-> FALSE]
\* comparators that are not strict weak orderings
less_equal    == [x \in Vals, y \in Vals |-> x <= y]
always_true   == [x \in Vals, y \in Vals |-> TRUE]
not_equal     == [x \in Vals, y \in Vals |-> x # y]

CompNames == {"less", "greater", "key_less", "always_false",
              "less_equal", "always_true", "not_equal"}

Comparator(name) ==
    CASE name = "less"         -> less
      [] name = "greater"      -> greater
      [] name = "key_less"     -> key_less
      [] name = "always_false" -> always_false
      [] name = "less_equal"   -> less_equal
      [] name = "always_true"  -> always_true
      [] name = "not_equal"    -> not_equal

\* ------------------------------------------------------------ collaborators
\* iter_swap(x, y): exchange the values at two positions
iter_swap(a, p, q) == [a EXCEPT ![p + 1] = a[q + 1], ![q + 1] = a[p + 1]]

\* distance(first, last)
distance(first, last) == last - first

\* new Vector(first, last): an owned copy of the values of [first, last)
Vector(a, first, last) == SubSeq(a, first + 1, last)

\* copy(first, last, output): writes [first, last) of src to dst from
\* position output on; returns the position past the last written slot
copy(src, first, last, dst, output) ==
    [arr |-> [k \in 1 .. Len(dst) |->
                 IF k - 1 >= output /\ k - 1 < output + (last - first)
                 THEN src[first + (k - 1 - output) + 1]
                 ELSE dst[k]],
     ret |-> output + (last - first)]

\* ------------------------------------------------------------ sort
\* lines 50-54: mutant that reads the pivot but leaves it where it is
PivotToFrontNoSwap(a, first, size) ==
    LET pivot_it == first + (size \div 2)
    IN  [pivot |-> a[pivot_it + 1], arr |-> a]

\* lines 50-54: the pivot is the value at first.advance(floor(size / 2));
\* it is swapped into the first slot
PivotToFront(a, first, size) ==
    LET pivot_it == first + (size \div 2)
    IN  [pivot |-> a[pivot_it + 1],
         arr   |-> IF pivot_it # first THEN iter_swap(a, first, pivot_it) ELSE a]

\* lines 59-64: mutant that compares the pivot to the element
ScanStepFlipped(a, first, pivot, comp, i, j) ==
    IF comp[pivot, a[first + j + 1]]
    THEN [arr |-> iter_swap(a, first + j, first + i), i |-> i + 1]
    ELSE [arr |-> a, i |-> i]

\* lines 59-64: one iteration of the partition scan
ScanStep(a, first, pivot, comp, i, j) ==
    IF comp[a[first + j + 1], pivot]
    THEN [arr |-> iter_swap(a, first + j, first + i), i |-> i + 1]
    ELSE [arr |-> a, i |-> i]

\* lines 56-65: the partition scan, for (j = 1; j < size; ++j)
RECURSIVE Scan(_, _, _, _, _, _, _)
Scan(a, first, size, pivot, comp, i, j) ==
    IF j < size
    THEN LET r == ScanStep(a, first, pivot, comp, i, j)
         IN  Scan(r.arr, first, size, pivot, comp, r.i, j + 1)
    ELSE [arr |-> a, i |-> i]

\* line 66: the pivot goes from the first slot to the boundary
PivotToBoundary(a, first, i) == iter_swap(a, first, first + (i - 1))

\* line 68: sort(first, first.advance(i - 1), comp)
LowRange(first, i, last) == [first |-> first, last |-> first + (i - 1)]

\* line 69: mutant whose second range keeps the pivot slot
HighRangeWithPivot(first, i, last) == [first |-> first + (i - 1), last |-> last]

\* line 69: sort(first.advance(i), last, comp)
HighRange(first, i, last) == [first |-> first + i, last |-> last]

RECURSIVE sort(_, _, _, _)
sort(a, first, last, comp) ==
    LET size == last - first
    IN  IF size <= 0
        THEN a
        ELSE LET p  == PivotToFront(a, first, size)
                 r  == Scan(p.arr, first, size, p.pivot, comp, 1, 1)
                 a2 == PivotToBoundary(r.arr, first, r.i)
                 lo == LowRange(first, r.i, last)
                 hi == HighRange(first, r.i, last)
                 a3 == sort(a2, lo.first, lo.last, comp)
             IN  sort(a3, hi.first, hi.last, comp)

\* ------------------------------------------------------------ stable_sort
\* lines 85-88: the derived comparator comp(x, y) && !comp(y, x)
ramda(comp) == [x \in Vals, y \in Vals |-> comp[x, y] /\ ~comp[y, x]]

\* line 89
stable_sort(a, first, last, comp) == sort(a, first, last, ramda(comp))

\* ------------------------------------------------------------ partial_sort
\* lines 110-112: mutant whose scan stops one position before last
RECURSIVE MinScanShort(_, _, _, _, _)
MinScanShort(a, j, last, min, comp) ==
    IF j >= last - 1
    THEN min
    ELSE MinScanShort(a, j + 1, last,
                      IF comp[a[j + 1], a[min + 1]] THEN j ELSE min, comp)

\* lines 110-112: for (j = i.next(); !j.equals(last); j = j.next())
\*                    if (comp(j.value, min.value)) min = j;
RECURSIVE MinScan(_, _, _, _, _)
MinScan(a, j, last, min, comp) ==
    IF j = last
    THEN min
    ELSE MinScan(a, j + 1, last,
                 IF comp[a[j + 1], a[min + 1]] THEN j ELSE min, comp)

\* lines 106-116: for (i = first; !i.equals(middle); i = i.next())
RECURSIVE PartialSortFrom(_, _, _, _, _)
PartialSortFrom(a, i, middle, last, comp) ==
    IF i = middle
    THEN a
    ELSE LET min == MinScan(a, i + 1, last, i, comp)
             a1  == IF i # min THEN iter_swap(a, i, min) ELSE a
         IN  PartialSortFrom(a1, i + 1, middle, last, comp)

partial_sort(a, first, middle, last, comp) ==
    PartialSortFrom(a, first, middle, last, comp)

\* ------------------------------------------------------------ partial_sort_copy
\* lines 139-150: mutant that copies the whole sorted buffer whatever the capacity
partial_sort_copy_always_full(a, first, last, o, output_first, output_last, comp) ==
    LET result_size == distance(output_first, output_last)
        vector      == Vector(a, first, last)
        sorted      == sort(vector, 0, Len(vector), comp)
        c           == copy(sorted, 0, Len(sorted), o, output_first)
    IN  [input |-> a, output |-> c.arr, ret |-> c.ret]

\* lines 139-150: mutant that sorts the input range itself
partial_sort_copy_in_place(a, first, last, o, output_first, output_last, comp) ==
    LET input_size  == distance(first, last)
        result_size == distance(output_first, output_last)
        sorted      == sort(a, first, last, comp)
        c == IF input_size > result_size
             THEN copy(sorted, first, first + result_size, o, output_first)
             ELSE copy(sorted, first, last, o, output_first)
    IN  [input |-> sorted, output |-> c.arr, ret |-> c.ret]

\* lines 139-150; the result names the input container, the output
\* container and the returned output position
partial_sort_copy(a, first, last, o, output_first, output_last, comp) ==
    LET input_size  == distance(first, last)
        result_size == distance(output_first, output_last)
        vector      == Vector(a, first, last)
        sorted      == sort(vector, 0, Len(vector), comp)
        c == IF input_size > result_size
             THEN copy(sorted, 0, result_size, o, output_first)
             ELSE copy(sorted, 0, Len(sorted), o, output_first)
    IN  [input |-> a, output |-> c.arr, ret |-> c.ret]

\* ------------------------------------------------------------ nth_element
\* lines 170-175: the count of candidate i, abandoned once it exceeds n
RECURSIVE CountFrom(_, _, _, _, _, _, _)
CountFrom(a, i, j, last, comp, n, count) ==
    IF j = last
    THEN count
    ELSE IF i = j
         THEN CountFrom(a, i, j + 1, last, comp, n, count)
         ELSE IF comp[a[i + 1], a[j + 1]]
              THEN IF count + 1 > n
                   THEN count + 1
                   ELSE CountFrom(a, i, j + 1, last, comp, n, count + 1)
              ELSE CountFrom(a, i, j + 1, last, comp, n, count)

\* lines 168-182: mutant that exchanges the candidate with first
RECURSIVE NthFromSwapFirst(_, _, _, _, _, _, _)
NthFromSwapFirst(a, i, first, nth, last, comp, n) ==
    IF i = last
    THEN a
    ELSE IF CountFrom(a, i, first, last, comp, n, 0) = n
         THEN iter_swap(a, first, i)
         ELSE NthFromSwapFirst(a, i + 1, first, nth, last, comp, n)

\* lines 168-182: for (i = first; !i.equals(last); i = i.next())
RECURSIVE NthFrom(_, _, _, _, _, _, _)
NthFrom(a, i, first, nth, last, comp, n) ==
    IF i = last
    THEN a
    ELSE IF CountFrom(a, i, first, last, comp, n, 0) = n
         THEN iter_swap(a, nth, i)
         ELSE NthFrom(a, i + 1, first, nth, last, comp, n)

nth_element(a, first, nth, last, comp) ==
    NthFrom(a, first, first, nth, last, comp, distance(first, nth))

\* ------------------------------------------------------------ inspectors
\* lines 224-228: mutant that never advances first
RECURSIVE SortedUntilFromFixedFirst(_, _, _, _, _)
SortedUntilFromFixedFirst(a, first, next, last, comp) ==
    IF next = last
    THEN last
    ELSE IF comp[a[next + 1], a[first + 1]]
         THEN next
         ELSE SortedUntilFromFixedFirst(a, first, next + 1, last, comp)

\* lines 224-230: for (next = first.next(); !next.equals(last); next = next.next())
RECURSIVE SortedUntilFrom(_, _, _, _, _)
SortedUntilFrom(a, first, next, last, comp) ==
    IF next = last
    THEN last
    ELSE IF comp[a[next + 1], a[first + 1]]
         THEN next
         ELSE SortedUntilFrom(a, first + 1, next + 1, last, comp)

\* lines 221-230
is_sorted_until(a, first, last, comp) ==
    IF first = last
    THEN last
    ELSE SortedUntilFrom(a, first, first + 1, last, comp)

\* line 203
is_sorted(a, first, last, comp) == is_sorted_until(a, first, last, comp) = last

\* ------------------------------------------------------------ state
VARIABLES
    data,       \* the caller's container
    orig,       \* the container as it was before the call
    comp,       \* name of the comparator passed to the call
    range,      \* the range [first, last) passed to the call
    pc,         \* "ready", "running", "done" or the function that has run
    arg,        \* position middle / nth of the call
    out,        \* the output container of partial_sort_copy
    ret,        \* the returned position
    verdict,    \* the returned boolean of is_sorted
    stack,      \* call stack of sort, innermost activation last
    touched     \* positions sort has read or written so far

vars == <<data, orig, comp, range, pc, arg, out, ret, verdict, stack, touched>>

Seqs(n) == UNION {[1 .. k -> Vals] : k \in 0 .. n}

C == Comparator(comp)

\* ------------------------------------------------------------ whole calls
Init ==
    /\ data \in Seqs(MaxLen)
    /\ orig = data
    /\ comp \in CompNames
    /\ range = [first |-> 0, last |-> Len(data)]
    /\ pc = "ready"
    /\ arg = 0
    /\ out \in {[k \in 1 .. c |-> OutFill] : c \in 0 .. MaxOut}
    /\ ret = 0
    /\ verdict = FALSE
    /\ stack = <<>>
    /\ touched = {}

CallSort ==
    /\ pc = "ready"
    /\ data' = sort(data, range.first, range.last, C)
    /\ pc' = "sort"
    /\ UNCHANGED <<orig, comp, range, arg, out, ret, verdict, stack, touched>>

CallStableSort ==
    /\ pc = "ready"
    /\ data' = stable_sort(data, range.first, range.last, C)
    /\ pc' = "stable_sort"
    /\ UNCHANGED <<orig, comp, range, arg, out, ret, verdict, stack, touched>>

CallPartialSort ==
    /\ pc = "ready"
    /\ \E middle \in range.first .. range.last :
         /\ data' = partial_sort(data, range.first, middle, range.last, C)
         /\ arg' = middle
    /\ pc' = "partial_sort"
    /\ UNCHANGED <<orig, comp, range, out, ret, verdict, stack, touched>>

CallPartialSortCopy ==
    /\ pc = "ready"
    /\ LET r == partial_sort_copy(data, range.first, range.last,
                                  out, 0, Len(out), C)
       IN  /\ data' = r.input
           /\ out' = r.output
           /\ ret' = r.ret
    /\ pc' = "partial_sort_copy"
    /\ UNCHANGED <<orig, comp, range, arg, verdict, stack, touched>>

CallNthElement ==
    /\ pc = "ready"
    /\ \E nth \in range.first .. range.last :
         /\ data' = nth_element(data, range.first, nth, range.last, C)
         /\ arg' = nth
    /\ pc' = "nth_element"
    /\ UNCHANGED <<orig, comp, range, out, ret, verdict, stack, touched>>

CallIsSortedUntil ==
    /\ pc = "ready"
    /\ ret' = is_sorted_until(data, range.first, range.last, C)
    /\ pc' = "is_sorted_until"
    /\ UNCHANGED <<data, orig, comp, range, arg, out, verdict, stack, touched>>

CallIsSorted ==
    /\ pc = "ready"
    /\ verdict' = is_sorted(data, range.first, range.last, C)
    /\ pc' = "is_sorted"
    /\ UNCHANGED <<data, orig, comp, range, arg, out, ret, stack, touched>>

Next ==
    \/ CallSort
    \/ CallStableSort
    \/ CallPartialSort
    \/ CallPartialSortCopy
    \/ CallNthElement
    \/ CallIsSortedUntil
    \/ CallIsSorted

Spec == Init /\ [][Next]_vars

\* ------------------------------------------------------------ sort, step by step
\* One activation of sort per stack frame; each action is one stretch of
\* lines 46-69 between two calls.
Frame(first, last) ==
    [first |-> first, last |-> last, at |-> "entry", pivot |-> 0, i |-> 0, j |-> 0]

Top == stack[Len(stack)]
Pop == SubSeq(stack, 1, Len(stack) - 1)
SetTop(f) == [stack EXCEPT ![Len(stack)] = f]

\* deepest stack the model follows; sort itself has no such limit
MaxDepth == MaxLen + 3

StepInit ==
    /\ data \in Seqs(MaxLen)
    /\ orig = data
    /\ comp \in CompNames
    /\ \E f \in {0, 1}, l \in {Len(data) - 1, Len(data)} :
         /\ f <= l
         /\ range = [first |-> f, last |-> l]
    /\ pc = "running"
    /\ arg = 0
    /\ out = <<>>
    /\ ret = 0
    /\ verdict = FALSE
    /\ stack = <<Frame(range.first, range.last)>>
    /\ touched = {}

\* lines 46-48: if (size <= 0) return;
SortReturnEmpty ==
    /\ pc = "running"
    /\ Top.at = "entry"
    /\ Top.last - Top.first <= 0
    /\ stack' = Pop
    /\ pc' = IF Len(stack) = 1 THEN "done" ELSE "running"
    /\ UNCHANGED <<data, orig, comp, range, arg, out, ret, verdict, touched>>

\* lines 50-56
SortBegin ==
    /\ pc = "running"
    /\ Top.at = "entry"
    /\ Top.last - Top.first > 0
    /\ LET size == Top.last - Top.first
           p    == PivotToFront(data, Top.first, size)
       IN  /\ data' = p.arr
           /\ stack' = SetTop([Top EXCEPT !.at = "scan", !.pivot = p.pivot,
                                          !.i = 1, !.j = 1])
           /\ touched' = touched \cup {Top.first, Top.first + (size \div 2)}
    /\ UNCHANGED <<orig, comp, range, pc, arg, out, ret, verdict>>

\* lines 57-65: one iteration of the scan
SortScan ==
    /\ pc = "running"
    /\ Top.at = "scan"
    /\ Top.j < Top.last - Top.first
    /\ LET r == ScanStep(data, Top.first, Top.pivot, C, Top.i, Top.j)
       IN  /\ data' = r.arr
           /\ stack' = SetTop([Top EXCEPT !.i = r.i, !.j = Top.j + 1])
           /\ touched' = touched \cup {Top.first + Top.j}
                           \cup (IF r.i # Top.i THEN {Top.first + Top.i} ELSE {})
    /\ UNCHANGED <<orig, comp, range, pc, arg, out, ret, verdict>>

\* lines 66-68: the pivot goes to the boundary, then the first recursive call
SortSplit ==
    /\ pc = "running"
    /\ Top.at = "scan"
    /\ Top.j >= Top.last - Top.first
    /\ Len(stack) < MaxDepth
    /\ LET lo == LowRange(Top.first, Top.i, Top.last)
       IN  /\ data' = PivotToBoundary(data, Top.first, Top.i)
           /\ stack' = Append(SetTop([Top EXCEPT !.at = "low_done"]),
                              Frame(lo.first, lo.last))
           /\ touched' = touched \cup {Top.first, Top.first + (Top.i - 1)}
    /\ UNCHANGED <<orig, comp, range, pc, arg, out, ret, verdict>>

\* line 69: the second recursive call
SortSecond ==
    /\ pc = "running"
    /\ Top.at = "low_done"
    /\ Len(stack) < MaxDepth
    /\ LET hi == HighRange(Top.first, Top.i, Top.last)
       IN  stack' = Append(SetTop([Top EXCEPT !.at = "high_done"]),
                           Frame(hi.first, hi.last))
    /\ UNCHANGED <<data, orig, comp, range, pc, arg, out, ret, verdict, touched>>

\* line 70: return
SortReturn ==
    /\ pc = "running"
    /\ Top.at = "high_done"
    /\ stack' = Pop
    /\ pc' = IF Len(stack) = 1 THEN "done" ELSE "running"
    /\ UNCHANGED <<data, orig, comp, range, arg, out, ret, verdict, touched>>

StepNext ==
    \/ SortReturnEmpty
    \/ SortBegin
    \/ SortScan
    \/ SortSplit
    \/ SortSecond
    \/ SortReturn

\* a call runs to completion: no step of it is postponed for ever
StepSpec == StepInit /\ [][StepNext]_vars /\ WF_vars(StepNext)

\* ------------------------------------------------------------ vocabulary
Min(S) == CHOOSE x \in S : \A y \in S : x <= y

\* number of slots of a that hold v
Count(a, v) == Cardinality({k \in DOMAIN a : a[k] = v})

IsPermutation(a, b) ==
    /\ Len(a) = Len(b)
    /\ \A v \in Vals \cup {OutFill} : Count(a, v) = Count(b, v)

\* no adjacent pair of [first, last) has c(later, earlier)
NonDecreasing(a, first, last, c) ==
    \A p \in first + 1 .. last - 1 : ~c[a[p + 1], a[p]]

Tied(c, x, y) == ~c[x, y] /\ ~c[y, x]

IsStrictWeakOrder(c) ==
    /\ \A x \in Vals : ~c[x, x]
    /\ \A x, y, z \in Vals : c[x, y] /\ c[y, z] => c[x, z]
    /\ \A x, y, z \in Vals : Tied(c, x, y) /\ Tied(c, y, z) => Tied(c, x, z)

\* the elements of a that tie with v, in the order a holds them
TiedWith(a, c, v) == SelectSeq(a, LAMBDA x : Tied(c, x, v))

\* the slots outside [first, last) hold what they held before the call
OutsideUnchanged ==
    \A k \in DOMAIN orig :
        (k - 1 < range.first \/ k - 1 >= range.last) => data[k] = orig[k]

\* v is a value a sorted arrangement of S can hold at index n
HasRank(S, c, v, n) ==
    /\ Cardinality({k \in DOMAIN S : c[S[k], v]}) <= n
    /\ n < Cardinality({k \in DOMAIN S : ~c[v, S[k]]})

\* ------------------------------------------------------------ sort
\* C1: for a strict weak order, sort terminates and leaves [first, last)
\* a permutation of what it held, with no adjacent pair C(later, earlier).
SortSorts ==
    /\ <>(pc = "done")
    /\ [](pc = "done" /\ IsStrictWeakOrder(C) =>
            /\ IsPermutation(data, orig)
            /\ OutsideUnchanged
            /\ NonDecreasing(data, range.first, range.last, C))

SortSortsWitness ==
    /\ pc = "done"
    /\ IsStrictWeakOrder(C)
    /\ range.last - range.first >= 3
    /\ data # orig
    /\ \E p, q \in range.first .. range.last - 1 : C[data[p + 1], data[q + 1]]

\* C9: for any comparator, sort terminates, touches no position outside
\* [first, last), every recursive call is on a range strictly shorter than
\* its caller's, the nesting of recursive calls never exceeds the length of
\* the range, and the result is a permutation of the input.
SortStepSafe ==
    /\ touched \subseteq range.first .. range.last - 1
    /\ OutsideUnchanged
    /\ \A k \in 2 .. Len(stack) :
          /\ stack[k].last - stack[k].first < stack[k - 1].last - stack[k - 1].first
          /\ stack[k].first >= stack[k - 1].first
          /\ stack[k].last <= stack[k - 1].last
    /\ Len(stack) - 1 <= range.last - range.first
    /\ pc = "done" => IsPermutation(data, orig)

SortTotal == []SortStepSafe /\ <>(pc = "done")

SortTotalWitness ==
    /\ pc = "done"
    /\ ~IsStrictWeakOrder(C)
    /\ range.last - range.first >= 3
    /\ touched = range.first .. range.last - 1
    /\ data # orig

\* C7 as stated: sort leaves a sequence that is already sorted under a
\* strict weak order exactly as it was, tied elements included.
SortIdempotent ==
    (pc = "sort" /\ IsStrictWeakOrder(C)
        /\ NonDecreasing(orig, range.first, range.last, C))
    => data = orig

\* C7 amended: sort leaves a sequence that is already sorted under a strict
\* weak order exactly as it was, provided every two of its elements that
\* tie are the same value.
TiesAreEqual(a, c) ==
    \A p, q \in DOMAIN a : Tied(c, a[p], a[q]) => a[p] = a[q]

SortIdempotentEqualTies ==
    (pc = "sort" /\ IsStrictWeakOrder(C)
        /\ NonDecreasing(orig, range.first, range.last, C)
        /\ TiesAreEqual(orig, C))
    => data = orig

SortIdempotentWitness ==
    /\ pc = "sort"
    /\ IsStrictWeakOrder(C)
    /\ NonDecreasing(orig, range.first, range.last, C)
    /\ TiesAreEqual(orig, C)
    /\ Len(orig) >= 3
    /\ \E p, q \in DOMAIN orig : p # q /\ orig[p] = orig[q]
    /\ \E p, q \in DOMAIN orig : C[orig[p], orig[q]]
    /\ data = orig

\* ------------------------------------------------------------ stable_sort
\* C2: stable_sort yields a sorted permutation in which elements that tie
\* keep the relative order they had in the input.
StableSortIsStable ==
    (pc = "stable_sort" /\ IsStrictWeakOrder(C)) =>
        /\ IsPermutation(data, orig)
        /\ NonDecreasing(data, range.first, range.last, C)
        /\ \A v \in Vals : TiedWith(data, C, v) = TiedWith(orig, C, v)

\* ------------------------------------------------------------ partial_sort
\* C4: for a strict weak order, partial_sort leaves a permutation whose
\* prefix [first, middle) is ascending and holds the smallest elements: no
\* element of [middle, last) is less than an element of the prefix;
\* middle = first changes nothing and middle = last sorts the whole range.
PartialSortCorrect ==
    (pc = "partial_sort" /\ IsStrictWeakOrder(C)) =>
        /\ IsPermutation(data, orig)
        /\ NonDecreasing(data, range.first, arg, C)
        /\ \A p \in range.first .. arg - 1 : \A q \in arg .. range.last - 1 :
              ~C[data[q + 1], data[p + 1]]
        /\ arg = range.first => data = orig
        /\ arg = range.last => NonDecreasing(data, range.first, range.last, C)

PartialSortWitness ==
    /\ pc = "partial_sort"
    /\ IsStrictWeakOrder(C)
    /\ arg - range.first >= 2
    /\ range.last - arg >= 2
    /\ data # orig
    /\ ~NonDecreasing(data, range.first, range.last, C)

\* ------------------------------------------------------------ partial_sort_copy
\* the first m output slots hold m smallest elements of S: they are taken
\* from S, and no element of S left out is less than one of them
SmallestOf(S, o, m, c) ==
    /\ \A v \in Vals : Count(SubSeq(o, 1, m), v) <= Count(S, v)
    /\ \A v \in Vals : Count(SubSeq(o, 1, m), v) < Count(S, v) =>
          \A k \in 1 .. m : ~c[v, o[k]]

\* C5: for a strict weak order, partial_sort_copy writes exactly
\* m = min(n, c) elements into the first m output slots, they are the m
\* smallest elements of the input in ascending order, and it returns
\* output_first advanced by m.
PartialSortCopyCorrect ==
    (pc = "partial_sort_copy" /\ IsStrictWeakOrder(C)) =>
        LET m == IF Len(orig) < Len(out) THEN Len(orig) ELSE Len(out)
        IN  /\ ret = m
            /\ \A k \in DOMAIN out : (out[k] # OutFill) <=> (k <= m)
            /\ NonDecreasing(out, 0, m, C)
            /\ SmallestOf(orig, out, m, C)

PartialSortCopyWitness ==
    /\ pc = "partial_sort_copy"
    /\ IsStrictWeakOrder(C)
    /\ Len(orig) > Len(out)
    /\ Len(out) >= 2
    /\ ret = Len(out)
    /\ C[out[1], out[2]]
    /\ SubSeq(orig, 1, 2) # out

\* C8: partial_sort_copy leaves the input range as it was, leaves the
\* output slots at or after the returned position as they were, and with an
\* empty input or an empty output range writes nothing and returns
\* output_first.
PartialSortCopyFrame ==
    pc = "partial_sort_copy" =>
        /\ data = orig
        /\ \A k \in DOMAIN out : k - 1 >= ret => out[k] = OutFill
        /\ (Len(orig) = 0 \/ Len(out) = 0) =>
              /\ ret = 0
              /\ \A k \in DOMAIN out : out[k] = OutFill

PartialSortCopyFrameWitness ==
    /\ pc = "partial_sort_copy"
    /\ Len(orig) >= 1
    /\ Len(orig) < Len(out)
    /\ ret = Len(orig)
    /\ out[ret + 1] = OutFill
    /\ out[1] # OutFill
    /\ ~NonDecreasing(orig, 0, Len(orig), C)

\* ------------------------------------------------------------ nth_element
\* C3: for pairwise distinct elements and a strict weak order, nth_element
\* leaves at position nth the value that index n of the sorted sequence
\* holds.
NthElementRank ==
    (pc = "nth_element" /\ IsStrictWeakOrder(C)
        /\ arg < range.last
        /\ \A p, q \in DOMAIN orig : p # q => orig[p] # orig[q])
    => HasRank(orig, C, data[arg + 1], arg - range.first)

\* the positions with exactly n other positions j with comp(value, value at j)
Candidates(S, c, n) ==
    {i \in 0 .. Len(S) - 1 :
        Cardinality({j \in 0 .. Len(S) - 1 :
                        j # i /\ c[S[i + 1], S[j + 1]]}) = n}

\* C10: for any comparator, nth_element either exchanges position nth with
\* the first position whose count is exactly n, or, when no position has
\* that count, changes nothing; the result is a permutation of the input.
NthElementOneExchange ==
    pc = "nth_element" =>
        LET cands == Candidates(orig, C, arg - range.first)
        IN  /\ IsPermutation(data, orig)
            /\ cands = {} => data = orig
            /\ cands # {} =>
                  LET i == Min(cands)
                  IN  \A k \in DOMAIN data :
                         data[k] = IF k - 1 = arg THEN orig[i + 1]
                                   ELSE IF k - 1 = i THEN orig[arg + 1]
                                   ELSE orig[k]

NthElementWitness ==
    /\ pc = "nth_element"
    /\ Cardinality(Candidates(orig, C, arg - range.first)) >= 2
    /\ Min(Candidates(orig, C, arg - range.first)) > range.first
    /\ data # orig

\* ------------------------------------------------------------ inspectors
\* the earliest position after first whose value is C-before the value
\* immediately preceding it, or last
EarliestViolation(S, first, last, c) ==
    LET bad == {p \in first + 1 .. last - 1 : c[S[p + 1], S[p]]}
    IN  IF bad = {} THEN last ELSE Min(bad)

\* C6: is_sorted_until returns the earliest violating position, or last
\* when there is none, and is_sorted is true exactly when that is last.
InspectorsCorrect ==
    /\ pc = "is_sorted_until" =>
          ret = EarliestViolation(orig, range.first, range.last, C)
    /\ pc = "is_sorted" =>
          (verdict <=> EarliestViolation(orig, range.first, range.last, C) = range.last)

InspectorsWitness ==
    /\ pc = "is_sorted_until"
    /\ ret >= range.first + 2
    /\ ret < range.last - 1
    /\ C[orig[ret + 2], orig[ret + 1]]
    /\ C[orig[ret + 1], orig[1]]

====
